---- MODULE Spec2Model ----
(***************************************************************************)
(* Model of the product catalog fragment in "Internal Design/script .js":  *)
(* the products array, the image/alt resolution of renderProducts, the     *)
(* one-shot onerror fallback of a rendered <img>, and the click handler    *)
(* for the edit-product-btn and delete-product-btn buttons.                *)
(***************************************************************************)
EXTENDS Integers, Sequences, FiniteSets, TLC

VARIABLES
    products,              \* the let-bound products array
    products0,             \* history: the array as first constructed
    filterCategorySelect,  \* filterCategorySelect.value
    saveProductBtn,        \* saveProductBtn.textContent
    productList,           \* the rendered cards (one <img> fragment each)
    calls,                 \* calls made by the handler that ran last
    lastEvent              \* the event handled last

vars == <<products, products0, filterCategorySelect, saveProductBtn,
          productList, calls, lastEvent>>

----------------------------------------------------------------------------
\* Bounds

MaxProducts == 2    \* longest products array of Spec
MaxCards    == 2    \* longest products array of SpecRender

----------------------------------------------------------------------------
\* Values

Undefined == "<undefined>"       \* a property that is absent
Null      == "<null>"            \* this.onerror = null

NoImageUrl    == "https://placehold.co/100x100/CCCCCC/666666?text=No+Image"
ImageErrorUrl == "https://placehold.co/150x100/CCCCCC/666666?text=Image+Error"
UpdateLabel   == "Update Product"
InitialLabel  == "Save Product"
DeletedMsg    == "Product deleted successfully!"

Ids      == {"prod-dress-001", "prod-shirt-002"}
EventIds == Ids \cup {"prod-none-404"}
Cats     == {"cat-dresses", "cat-shirts"}
Filters  == Cats \cup {""}            \* values of the category select
RenderArgs == Filters \cup {Undefined}  \* renderProducts() has no argument
Names    == {Undefined, "", "Summer Floral Dress"}
Urls     == {Undefined, "", "not a url", "https://example.com/a.png"}

\* The characters of the strings that reach isValidUrl.
Spell ==
    [s \in Urls \ {Undefined} |->
        CASE s = "" -> <<>>
          [] s = "not a url" ->
                <<"n","o","t"," ","a"," ","u","r","l">>
          [] s = "https://example.com/a.png" ->
                <<"h","t","t","p","s",":","/","/","e","x","a","m","p","l",
                  "e",".","c","o","m","/","a",".","p","n","g">>]

Alpha == {"a","b","c","d","e","f","g","h","i","j","k","l","m","n","o","p",
          "q","r","s","t","u","v","w","x","y","z"}
SchemeChar == Alpha \cup {"0","1","2","3","4","5","6","7","8","9","+","-","."}

\* JavaScript truthiness of a string-or-undefined value.
Truthy(v) == v # Undefined /\ v # ""

----------------------------------------------------------------------------
\* renderProducts

\* isValidUrl(string): true iff the string parses as a URL, that is, it
\* starts with a scheme (a letter, then letters, digits, "+", "-", "."),
\* a ":" and a non-empty rest.
isValidUrl(s) ==
    LET cs == Spell[s] IN
    \E k \in 2..Len(cs) :
        /\ cs[k] = ":"
        /\ cs[1] \in Alpha
        /\ \A j \in 2..(k-1) : cs[j] \in SchemeChar
        /\ k < Len(cs)

\* Variant: the validation is left out of the condition.
ResolveImageUrl_NoValidation(product) ==
    IF Truthy(product.imageUrl) THEN product.imageUrl ELSE NoImageUrl

\* const imageUrl = product.imageUrl && isValidUrl(product.imageUrl)
\*                  ? product.imageUrl : `...No+Image`
ResolveImageUrl(product) ==
    IF Truthy(product.imageUrl) /\ isValidUrl(product.imageUrl)
    THEN product.imageUrl
    ELSE NoImageUrl

\* Variant: alt="${product.name}" without the default.
AltText_NameOnly(product) == product.name

\* alt="${product.name || 'Product'}"
AltText(product) ==
    IF Truthy(product.name) THEN product.name ELSE "Product"

\* The handler the <img> is created with:
\* onerror="this.onerror=null;this.src='...Image+Error';"
OnErrorAttr == ImageErrorUrl

\* The card built for one product: the <img> and the data-id the card's
\* buttons carry.  product is the record the card was built from and
\* swaps counts the assignments onerror made to src (both history).
ProductCard(product) ==
    [id      |-> product.id,
     product |-> product,
     src     |-> ResolveImageUrl(product),
     alt     |-> AltText(product),
     onerror |-> OnErrorAttr,
     swaps   |-> 0]

\* Variant: the category filter is ignored.
FilterByCategory_All(ps, c) == ps

\* The products a category filter lets through, in collection order.
FilterByCategory(ps, c) ==
    IF Truthy(c)
    THEN SelectSeq(ps, LAMBDA p : p.categoryId = c)
    ELSE ps

\* renderProducts(categoryFilter): the new contents of the product list.
RenderProducts(ps, c) ==
    LET shown == FilterByCategory(ps, c)
    IN  [i \in 1..Len(shown) |-> ProductCard(shown[i])]

\* Variant: the handler does not clear this.onerror.
ImgOnError_NoDisarm(img) ==
    IF img.onerror # Null
    THEN [img EXCEPT !.src = img.onerror, !.swaps = img.swaps + 1]
    ELSE img

\* What a load failure does to an <img>: run onerror if it is still set.
ImgOnError(img) ==
    IF img.onerror # Null
    THEN [img EXCEPT !.onerror = Null,
                     !.src     = img.onerror,
                     !.swaps   = img.swaps + 1]
    ELSE img

----------------------------------------------------------------------------
\* Click handler

\* products.find(p => p.id === productId): the index of the first match,
\* 0 when there is none (undefined).
Find(ps, productId) ==
    IF \E i \in 1..Len(ps) : ps[i].id = productId
    THEN CHOOSE i \in 1..Len(ps) :
            /\ ps[i].id = productId
            /\ \A j \in 1..(i-1) : ps[j].id # productId
    ELSE 0

\* "// ... logic to populate form fields": given a record it fills the
\* form; given undefined it either does nothing or throws.
PopulateFormFields(found) ==
    IF found # 0 THEN {"ok"} ELSE {"ok", "throws"}

\* Variant: products.splice(index of the first match, 1).
FilterOut_FirstOnly(ps, productId) ==
    LET i == Find(ps, productId) IN
    IF i = 0 THEN ps ELSE SubSeq(ps, 1, i-1) \o SubSeq(ps, i+1, Len(ps))

\* Variant: products.reverse().filter(p => p.id !== productId).
FilterOut_Reversed(ps, productId) ==
    SelectSeq([i \in 1..Len(ps) |-> ps[Len(ps) + 1 - i]],
              LAMBDA p : p.id # productId)

\* products.filter(p => p.id !== productId)
FilterOut(ps, productId) ==
    SelectSeq(ps, LAMBDA p : p.id # productId)

Notify(message, type) == [fn |-> "showNotification", message |-> message,
                          type |-> type, arg |-> Undefined, saw |-> <<>>]
Render(c, ps)         == [fn |-> "renderProducts", message |-> Undefined,
                          type |-> Undefined, arg |-> c, saw |-> ps]

Event(kind, id, answer, outcome) ==
    [kind |-> kind, id |-> id, answer |-> answer, outcome |-> outcome]

\* Variant: the button is not relabelled.
HandleEdit_NoRelabel(productId, outcome) ==
    /\ outcome \in PopulateFormFields(Find(products, productId))
    /\ calls' = <<>>
    /\ lastEvent' = Event("edit", productId, FALSE, outcome)
    /\ UNCHANGED <<products, products0, filterCategorySelect, productList,
                   saveProductBtn>>

\* e.target.classList.contains('edit-product-btn')
HandleEdit(productId, outcome) ==
    LET productToEdit == Find(products, productId) IN
    /\ outcome \in PopulateFormFields(productToEdit)
    /\ saveProductBtn' = IF outcome = "ok" THEN UpdateLabel ELSE saveProductBtn
    /\ calls' = <<>>
    /\ lastEvent' = Event("edit", productId, FALSE, outcome)
    /\ UNCHANGED <<products, products0, filterCategorySelect, productList>>

\* Variant: renderProducts runs before products is reassigned.
HandleDelete_StaleRender(productId, answer) ==
    /\ IF answer
       THEN /\ productList' = RenderProducts(products, filterCategorySelect)
            /\ products' = FilterOut(products, productId)
            /\ calls' = <<Render(filterCategorySelect, products),
                          Notify(DeletedMsg, "success")>>
       ELSE /\ calls' = <<>>
            /\ UNCHANGED <<products, productList>>
    /\ lastEvent' = Event("delete", productId, answer, "ok")
    /\ UNCHANGED <<products0, filterCategorySelect, saveProductBtn>>

\* Variant: the answer of confirm() is not tested.
HandleDelete_NoConfirm(productId, answer) ==
    LET kept == FilterOut(products, productId) IN
    /\ products' = kept
    /\ calls' = <<Notify(DeletedMsg, "success"),
                  Render(filterCategorySelect, kept)>>
    /\ productList' = RenderProducts(kept, filterCategorySelect)
    /\ lastEvent' = Event("delete", productId, answer, "ok")
    /\ UNCHANGED <<products0, filterCategorySelect, saveProductBtn>>

\* e.target.classList.contains('delete-product-btn')
HandleDelete(productId, answer) ==
    /\ IF answer
       THEN LET kept == FilterOut(products, productId) IN
            /\ products' = kept
            /\ calls' = <<Notify(DeletedMsg, "success"),
                          Render(filterCategorySelect, kept)>>
            /\ productList' = RenderProducts(kept, filterCategorySelect)
       ELSE /\ calls' = <<>>
            /\ UNCHANGED <<products, productList>>
    /\ lastEvent' = Event("delete", productId, answer, "ok")
    /\ UNCHANGED <<products0, filterCategorySelect, saveProductBtn>>

\* A call of renderProducts(c) from the rest of the page.
CallRender(c) ==
    /\ productList' = RenderProducts(products, c)
    /\ calls' = <<Render(c, products)>>
    /\ lastEvent' = Event("render", c, TRUE, "ok")
    /\ UNCHANGED <<products, products0, filterCategorySelect, saveProductBtn>>

\* The user picks another entry of the category select.
SelectCategory(c) ==
    /\ c # filterCategorySelect
    /\ filterCategorySelect' = c
    /\ calls' = <<>>
    /\ lastEvent' = Event("select", c, FALSE, "ok")
    /\ UNCHANGED <<products, products0, saveProductBtn, productList>>

\* The i-th rendered image fails to load.
ImgError(i) ==
    /\ i \in 1..Len(productList)
    /\ productList' = [productList EXCEPT ![i] = ImgOnError(productList[i])]
    /\ calls' = <<>>
    /\ lastEvent' = Event("error", ToString(i),
                           productList[i].onerror # Null, "ok")
    /\ UNCHANGED <<products, products0, filterCategorySelect, saveProductBtn>>

----------------------------------------------------------------------------
\* Specifications

Product(ids, names, urls) ==
    [id : ids, name : names, categoryId : Cats, imageUrl : urls]

SeqsUpTo(S, n) == UNION {[1..k -> S] : k \in 0..n}

InitWith(universe, n, selected) ==
    /\ products \in SeqsUpTo(universe, n)
    /\ products0 = products
    /\ filterCategorySelect \in selected
    /\ saveProductBtn = InitialLabel
    /\ productList = <<>>
    /\ calls = <<>>
    /\ lastEvent = Event("none", Undefined, FALSE, "ok")

\* The page with its handlers; the records differ in id and category.
Init ==
    InitWith(Product(Ids, {"Summer Floral Dress"}, {"https://example.com/a.png"}),
             MaxProducts, Filters)

Next ==
    \/ \E id \in EventIds, o \in {"ok", "throws"} : HandleEdit(id, o)
    \/ \E id \in EventIds, a \in BOOLEAN : HandleDelete(id, a)
    \/ \E c \in RenderArgs : CallRender(c)
    \/ \E c \in Filters : SelectCategory(c)
    \/ \E i \in 1..MaxProducts : ImgError(i)

Spec == Init /\ [][Next]_vars

\* Rendering alone; the records differ in name, image and category.
InitRender ==
    InitWith(Product({"prod-dress-001"}, Names, Urls), MaxCards, {""})

NextRender ==
    \/ \E c \in RenderArgs : CallRender(c)
    \/ \E i \in 1..MaxCards : ImgError(i)

SpecRender == InitRender /\ [][NextRender]_vars

----------------------------------------------------------------------------
\* Properties

\* The step just taken handled a delete click / an edit click / ran
\* renderProducts.
DeleteStep(answer) == lastEvent'.kind = "delete" /\ lastEvent'.answer = answer
EditStep           == lastEvent'.kind = "edit"
RenderStep         == calls' # <<>> /\ calls'[Len(calls')].fn = "renderProducts"

Increasing(f) == \A i, j \in DOMAIN f : i < j => f[i] < f[j]

\* sub consists of exactly the elements of ps at the positions keep, in the
\* order of ps.
IsSelection(sub, ps, keep) ==
    \E f \in [1..Len(sub) -> 1..Len(ps)] :
        /\ Increasing(f)
        /\ {f[i] : i \in 1..Len(sub)} = keep
        /\ \A i \in 1..Len(sub) : sub[i] = ps[f[i]]

IsSubsequence(sub, ps) ==
    \E keep \in SUBSET (1..Len(ps)) : IsSelection(sub, ps, keep)

Distinct(ps) == \A i, j \in 1..Len(ps) : i # j => ps[i].id # ps[j].id

Holds(ps, id) == \E i \in 1..Len(ps) : ps[i].id = id

\* C1: a delete click whose confirmation is accepted leaves no product with
\* the clicked id, then emits the one success notification, then calls
\* renderProducts once with the selected category, which sees and renders
\* the collection as it is after the delete.
C1_ConfirmedDelete ==
    [][DeleteStep(TRUE) =>
        /\ ~Holds(products', lastEvent'.id)
        /\ Len(calls') = 2
        /\ calls'[1].fn = "showNotification"
        /\ calls'[1].message = "Product deleted successfully!"
        /\ calls'[1].type = "success"
        /\ calls'[2].fn = "renderProducts"
        /\ calls'[2].arg = filterCategorySelect
        /\ calls'[2].saw = products'
        /\ \A i \in 1..Len(productList') :
              productList'[i].id # lastEvent'.id]_vars

C1_Witness ==
    /\ lastEvent.kind = "delete" /\ lastEvent.answer
    /\ Holds(products0, lastEvent.id)
    /\ Len(products) = 1 /\ Len(products0) = 2
    /\ Len(calls) = 2
    /\ Len(productList) = 1

\* C2: a delete click whose confirmation is declined changes neither the
\* collection nor the rendered list nor the button label, and makes no call.
C2_DeclinedDelete ==
    [][DeleteStep(FALSE) =>
        /\ products' = products
        /\ calls' = <<>>
        /\ productList' = productList
        /\ saveProductBtn' = saveProductBtn]_vars

C2_Witness ==
    /\ lastEvent.kind = "delete" /\ ~lastEvent.answer
    /\ Holds(products, lastEvent.id)
    /\ productList # <<>>

\* C3: an edit click on an id that no product has changes neither the
\* collection nor the button label.
C3_EditMiss ==
    [][(EditStep /\ ~Holds(products, lastEvent'.id)) =>
        /\ products' = products
        /\ saveProductBtn' = saveProductBtn]_vars

\* C4: renderProducts(c) leaves one card per product of category c, in
\* collection order, and none for another product; with an empty or absent
\* c it leaves one card per product.
C4_RenderSelection ==
    [][RenderStep =>
        LET c     == calls'[Len(calls')].arg
            cards == [i \in 1..Len(productList') |-> productList'[i].product]
            keep  == {j \in 1..Len(products') :
                        c \in {"", Undefined} \/ products'[j].categoryId = c}
        IN  /\ IsSelection(cards, products', keep)
            /\ \A i \in 1..Len(cards) : productList'[i].id = cards[i].id
            /\ c \in {"", Undefined} => Len(productList') = Len(products')
      ]_vars

C4_Witness ==
    /\ lastEvent.kind = "render" /\ lastEvent.id \in Cats
    /\ Len(products) = 2 /\ Len(productList) = 1
    /\ productList[1].product = products[2]

\* C5: a card's image source is the product's imageUrl exactly when that
\* is non-empty and a valid URL ("https://example.com/a.png"), and is the
\* "No Image" placeholder otherwise (absent, empty, "not a url"); every
\* card starts with the fallback to the distinct "Image Error" placeholder.
C5_ImageSource ==
    [][RenderStep =>
        \A i \in 1..Len(productList') :
            LET img == productList'[i]
                url == img.product.imageUrl
                ok  == url \notin {Undefined, ""} /\ isValidUrl(url)
            IN  /\ ok  => img.src = url
                /\ ~ok => img.src = NoImageUrl
                /\ url \in {Undefined, "", "not a url"} => img.src = NoImageUrl
                /\ url = "https://example.com/a.png" => img.src = url
                /\ img.onerror = ImageErrorUrl
                /\ ImageErrorUrl # NoImageUrl
                /\ img.src # ImageErrorUrl]_vars

C5_Witness ==
    /\ lastEvent.kind = "render"
    /\ Len(productList) = 2
    /\ productList[1].product.imageUrl = "not a url"
    /\ productList[1].src = NoImageUrl
    /\ productList[2].src = "https://example.com/a.png"

\* C6: every rendered image starts armed; its first load failure puts the
\* "Image Error" placeholder in src and disarms the handler; a later
\* failure of the same image changes nothing, so src is replaced at most
\* once per image.
C6_OneShotFallback ==
    [][/\ RenderStep =>
            \A i \in 1..Len(productList') :
                productList'[i].onerror # Null /\ productList'[i].swaps = 0
       /\ lastEvent'.kind = "error" =>
            /\ Len(productList') = Len(productList)
            /\ \A i \in 1..Len(productList) :
                LET a == productList[i]
                    b == productList'[i]
                IN  IF ToString(i) = lastEvent'.id /\ a.onerror # Null
                    THEN /\ b.src = ImageErrorUrl
                         /\ b.onerror = Null
                         /\ b.swaps = 1
                    ELSE b = a
       /\ \A i \in 1..Len(productList') :
            /\ productList'[i].swaps <= 1
            /\ productList'[i].onerror = Null <=> productList'[i].swaps = 1
      ]_vars

C6_Witness ==
    /\ lastEvent.kind = "error" /\ ~lastEvent.answer
    /\ \E i \in 1..Len(productList) :
        /\ ToString(i) = lastEvent.id
        /\ productList[i].swaps = 1
        /\ productList[i].src = ImageErrorUrl
        /\ productList[i].onerror = Null

\* C7: a card's alt text is the product's name when the name is present
\* and non-empty, and "Product" when it is absent or empty.
C7_AltText ==
    [][RenderStep =>
        \A i \in 1..Len(productList') :
            LET name == productList'[i].product.name IN
            /\ name \in {Undefined, ""} => productList'[i].alt = "Product"
            /\ name \notin {Undefined, ""} => productList'[i].alt = name]_vars

C7_Witness ==
    /\ lastEvent.kind = "render"
    /\ Len(productList) = 2
    /\ productList[1].product.name = Undefined
    /\ productList[1].alt = "Product"
    /\ productList[2].alt = "Summer Floral Dress"

\* C8: a confirmed delete of id X removes exactly the products with id X:
\* the others stay, unmodified and in order; all products with id X go;
\* when none has id X the collection is unchanged.
C8_DeleteExactly ==
    [][DeleteStep(TRUE) =>
        LET X    == lastEvent'.id
            keep == {j \in 1..Len(products) : products[j].id # X}
        IN  /\ IsSelection(products', products, keep)
            /\ ~Holds(products, X) => products' = products]_vars

C8_Witness ==
    /\ lastEvent.kind = "delete" /\ lastEvent.answer
    /\ Len(products0) = 2
    /\ products0[1].id = lastEvent.id /\ products0[2].id = lastEvent.id
    /\ products = <<>>

\* C9: the save button starts in Create mode; an edit click on an id that
\* a product has sets the label to "Update Product", leaves the collection
\* and the rendered list alone and makes no call; no delete click changes
\* the label.
C9_SaveButton ==
    /\ saveProductBtn # "Update Product"
    /\ [][/\ (EditStep /\ Holds(products, lastEvent'.id)) =>
                /\ saveProductBtn' = "Update Product"
                /\ products' = products
                /\ productList' = productList
                /\ calls' = <<>>
          /\ lastEvent'.kind = "delete" =>
                saveProductBtn' = saveProductBtn]_vars

C9_Witness ==
    /\ lastEvent.kind = "edit"
    /\ Holds(products, lastEvent.id)
    /\ saveProductBtn = UpdateLabel

\* C10: from a collection with pairwise distinct ids, every step leaves
\* the ids pairwise distinct and the collection a subsequence of the
\* initial one, and never makes it longer.
C10_DistinctSubsequence ==
    [][Distinct(products0) =>
        /\ Distinct(products')
        /\ IsSubsequence(products', products0)
        /\ Len(products') <= Len(products)]_vars

C10_Witness ==
    /\ Distinct(products0) /\ Len(products0) = 2
    /\ lastEvent.kind = "delete" /\ lastEvent.answer
    /\ products = <<products0[2]>>

====
